---- MODULE Spec2Model ----
(***************************************************************************)
(* Model of backend/app/main.py: a FastAPI service whose protected routes  *)
(* depend on verify_access_token, which validates a bearer token against   *)
(* the key set held by the process-wide JwksCache.                         *)
(*                                                                         *)
(* Requests are coroutines on one event loop: the code between two awaits  *)
(* runs atomically.  A request suspends at `await client.get(url)` (line   *)
(* 48) and again when the `async with` block closes the client on the way  *)
(* out (line 52 leaves the block of line 47); each stretch between these   *)
(* points is one action.                                                   *)
(*                                                                         *)
(* Time is counted in ticks; ttl_seconds is scaled to a few ticks.         *)
(***************************************************************************)
EXTENDS Integers, Sequences, FiniteSets, TLC

VARIABLES env, jwks, cached_at, clock, req

vars == <<env, jwks, cached_at, clock, req>>

----------------------------------------------------------------------------
(* Bounds and scaled constants *)

\* JwksCache.__init__(ttl_seconds=3600), in ticks of the model clock
ttl_seconds == 2

\* number of ticks the clock may advance after process start
Horizon == 3

\* time.time() at process start: far past the epoch, so at least one ttl
StartTime == ttl_seconds

MaxTime == StartTime + Horizon

\* the coroutines that may be in flight at once
Requests == {"r1", "r2"}

----------------------------------------------------------------------------
(* Python values *)

\* None where a string is expected (dict.get without default)
NoValue == "None"

\* dict.get(k, default)
Get(d, k, default) == IF k \in DOMAIN d THEN d[k] ELSE default

\* self.jwks values: None, the JSON object {} and {"keys": [...]}
None == [tag |-> "None", keys |-> <<>>]

EmptyDoc == [tag |-> "{}", keys |-> <<>>]

Doc(ks) == [tag |-> "keys", keys |-> ks]

\* bool(x) of None or a dict: None and the empty dict are falsy
Truthy(j) == j.tag \notin {"None", "{}"}

\* jwks.get("keys", [])
KeysOf(j) == j.keys

----------------------------------------------------------------------------
(* The provider: key material and the documents it may publish *)

Key1 == [kid |-> "k1", n |-> "m1"]

Key2 == [kid |-> "k2", n |-> "m2"]

\* what `response.json()` may return on a 2xx answer
Docs == {EmptyDoc, Doc(<<Key1, Key2>>), Doc(<<Key2, Key1>>), Doc(<<Key2>>)}

\* ways line 48-50 can raise: raise_for_status, transport error, json()
FetchErrors == {"status", "network", "json"}

----------------------------------------------------------------------------
(* CognitoConfig, lines 15-33 *)

Regions == {"", "us-east-1"}

Pools == {"", "pool1"}

Clients == {"", "client1"}

Envs == [region : Regions, user_pool_id : Pools, client_id : Clients]

\* variant of ConfigOk: the client id is not looked at
ConfigOkWithoutClient(e) == ~(e.region = "" \/ e.user_pool_id = "")

\* line 21: the constructor raises ValueError when a field is empty
ConfigOk(e) == ~(e.region = "" \/ e.user_pool_id = "" \/ e.client_id = "")

issuer(e) == "https://cognito-idp." \o e.region \o ".amazonaws.com/" \o e.user_pool_id

jwks_url(e) == issuer(e) \o "/.well-known/jwks.json"

ConfigMessage == "Missing Cognito config. Set COGNITO_REGION, COGNITO_USER_POOL_ID, and COGNITO_APP_CLIENT_ID."

----------------------------------------------------------------------------
(* Tokens.  A JWT is named by an atom; JWT gives its unverified header,   *)
(* the key material that signed it and its payload.                        *)

GoodEnv == [region |-> "us-east-1", user_pool_id |-> "pool1", client_id |-> "client1"]

\* `exp` values: one that passes while the model runs, one that lapses
ExpEarly == StartTime + 1

ExpLate == MaxTime + 1

With(d, k, v) == (k :> v) @@ d

Without(d, k) == [x \in (DOMAIN d) \ {k} |-> d[x]]

BaseClaims ==
    [iss |-> issuer(GoodEnv), exp |-> ExpLate, token_use |-> "access",
     sub |-> "alice", username |-> "alice_u", email |-> "alice@example.com"]

BobClaims ==
    [iss |-> issuer(GoodEnv), exp |-> ExpEarly, token_use |-> "access",
     sub |-> "bob", username |-> "bob_u", email |-> "bob@example.com"]

JWT ==
    [tAdmin   |-> [hdr |-> [alg |-> "RS256", kid |-> "k1"], sig |-> "m1",
                   claims |-> With(BaseClaims, "cognito:groups", <<"users", "admin">>)],
     tUser    |-> [hdr |-> [alg |-> "RS256", kid |-> "k2"], sig |-> "m2",
                   claims |-> With(BobClaims, "cognito:groups", <<"administrators">>)],
     tPlain   |-> [hdr |-> [alg |-> "RS256", kid |-> "k1"], sig |-> "m1",
                   claims |-> With(BaseClaims, "aud", "client1")],
     tId      |-> [hdr |-> [alg |-> "RS256", kid |-> "k1"], sig |-> "m1",
                   claims |-> With(With(BaseClaims, "token_use", "id"),
                                   "cognito:groups", <<"admin">>)],
     tNoUse   |-> [hdr |-> [alg |-> "RS256", kid |-> "k2"], sig |-> "m2",
                   claims |-> Without(BaseClaims, "token_use")],
     tForged  |-> [hdr |-> [alg |-> "RS256", kid |-> "k1"], sig |-> "m9",
                   claims |-> With(BaseClaims, "cognito:groups", <<"admin">>)],
     tStale   |-> [hdr |-> [alg |-> "RS256", kid |-> "k9"], sig |-> "m9",
                   claims |-> With(With(With(BaseClaims, "exp", 0), "token_use", "id"),
                                   "iss", "https://elsewhere")],
     tIss     |-> [hdr |-> [alg |-> "RS256", kid |-> "k2"], sig |-> "m2",
                   claims |-> With(BaseClaims, "iss", "https://elsewhere")],
     tAud     |-> [hdr |-> [alg |-> "RS256", kid |-> "k2"], sig |-> "m2",
                   claims |-> With(BaseClaims, "aud", "other-client")],
     tNoKid   |-> [hdr |-> [alg |-> "RS256"], sig |-> "m1",
                   claims |-> BaseClaims]]

\* atoms a header value is made of: words, the space, and token strings
TokenAtoms == (DOMAIN JWT) \cup {"junk"}

\* the Authorization header: absent (None) or a string, written as its atoms
NoHeader == [present |-> FALSE, value |-> <<>>]

Hdr(v) == [present |-> TRUE, value |-> v]

Headers ==
    {NoHeader, Hdr(<<>>), Hdr(<<"Bearer">>), Hdr(<<"Bearer", " ">>),
     Hdr(<<"Basic", " ", "tAdmin">>), Hdr(<<"bearer", " ", "tAdmin">>)}
    \cup {Hdr(<<"Bearer", " ", t>>) : t \in TokenAtoms}

\* what the second coroutine sends: traffic that runs beside the first one
BackgroundHeaders ==
    {NoHeader, Hdr(<<"Bearer", " ", "tAdmin">>), Hdr(<<"Bearer", " ", "tUser">>)}

HeadersOf(r) == IF r = "r1" THEN Headers ELSE BackgroundHeaders

\* str.lower() on one atom
Lower(a) ==
    CASE a = "Bearer" -> "bearer"
      [] a = "Basic"  -> "basic"
      [] OTHER        -> a

LowerStr(s) == [i \in 1..Len(s) |-> Lower(s[i])]

\* str.partition(" "): split at the first space
Partition(s) ==
    IF \E i \in 1..Len(s) : s[i] = " "
    THEN LET i == CHOOSE i \in 1..Len(s) :
                      s[i] = " " /\ \A j \in 1..(i - 1) : s[j] # " "
         IN  [scheme |-> SubSeq(s, 1, i - 1), token |-> SubSeq(s, i + 1, Len(s))]
    ELSE [scheme |-> s, token |-> <<>>]

\* `not authorization`: None and "" are falsy
HeaderMissing(a) == ~a.present \/ a.value = <<>>

----------------------------------------------------------------------------
(* jose.jwt *)

\* jwt.get_unverified_header raises JWTError unless the string is one JWT
HeaderParses(token) == Len(token) = 1 /\ token[1] \in DOMAIN JWT

get_unverified_header(token) == JWT[token[1]].hdr

\* jwt.decode(token, key, algorithms=["RS256"], issuer=, audience=) at time t:
\* signature under the key, then exp (if present), iss, aud (if present)
DecodeOk(token, key, iss, aud, t) ==
    LET j == JWT[token[1]]
        c == j.claims
    IN  /\ Get(j.hdr, "alg", NoValue) \in {"RS256"}
        /\ j.sig = Get(key, "n", NoValue)
        /\ ("exp" \in DOMAIN c => c["exp"] >= t)
        /\ Get(c, "iss", NoValue) = iss
        /\ ("aud" \in DOMAIN c => c["aud"] = aud)

decode(token) == JWT[token[1]].claims

----------------------------------------------------------------------------
(* verify_access_token, lines 58-96 *)

\* raise HTTPException(status_code=, detail=)
Raise(status, detail) == [ok |-> FALSE, status |-> status, detail |-> detail]

Return(c) == [ok |-> TRUE, claims |-> c]

\* variant of verify_before_get: the configuration is resolved first
verify_before_get_config_first(authorization, e) ==
    IF ~ConfigOk(e)
    THEN Raise(500, ConfigMessage)
    ELSE IF HeaderMissing(authorization)
         THEN Raise(401, "Missing Authorization header")
         ELSE LET p == Partition(authorization.value)
              IN  IF LowerStr(p.scheme) # <<"bearer">> \/ p.token = <<>>
                  THEN Raise(401, "Invalid Authorization header")
                  ELSE [ok |-> TRUE, token |-> p.token]

\* lines 59-69: everything before `await jwks_cache.get`
verify_before_get(authorization, e) ==
    IF HeaderMissing(authorization)
    THEN Raise(401, "Missing Authorization header")
    ELSE LET p == Partition(authorization.value)
         IN  IF LowerStr(p.scheme) # <<"bearer">> \/ p.token = <<>>
             THEN Raise(401, "Invalid Authorization header")
             ELSE IF ~ConfigOk(e)
                  THEN Raise(500, ConfigMessage)
                  ELSE [ok |-> TRUE, token |-> p.token]

\* variant of SelectKey: only the first published key is compared
SelectKeyHead(ks, header) ==
    IF Len(ks) > 0 /\ Get(ks[1], "kid", NoValue) = Get(header, "kid", NoValue)
    THEN 1 ELSE 0

\* variant of SelectKey: the first published key, whatever its kid
SelectKeyFirst(ks, header) == IF Len(ks) > 0 THEN 1 ELSE 0

\* line 78: next((k for k in keys if k.get("kid") == header.get("kid")), None);
\* 0 stands for None
SelectKey(ks, header) ==
    LET hit == {i \in 1..Len(ks) :
                   Get(ks[i], "kid", NoValue) = Get(header, "kid", NoValue)}
    IN  IF hit = {} THEN 0 ELSE CHOOSE i \in hit : \A j \in hit : i <= j

\* variant of TokenUseOk: a token without token_use passes
TokenUseOkLax(claims) == Get(claims, "token_use", "access") = "access"

\* line 93: claims.get("token_use") != "access" raises
TokenUseOk(claims) == Get(claims, "token_use", NoValue) = "access"

\* lines 73-96: everything after the key set is in hand, run at time t
verify_after_get(token, e, jw, t) ==
    IF ~HeaderParses(token)
    THEN Raise(401, "Invalid token header")
    ELSE LET header == get_unverified_header(token)
             k == SelectKey(KeysOf(jw), header)
         IN  IF k = 0
             THEN Raise(401, "Signing key not found")
             ELSE IF ~DecodeOk(token, KeysOf(jw)[k], issuer(e), e.client_id, t)
                  THEN Raise(401, "Token verification failed")
                  ELSE IF ~TokenUseOk(decode(token))
                       THEN Raise(401, "Expected access token")
                       ELSE Return(decode(token))

----------------------------------------------------------------------------
(* Routes, lines 104-137 *)

Endpoints == {"profile", "transactions", "admin_reports"}

Response(status, body) == [status |-> status, body |-> body]

\* variant of ErrorResponse: every HTTPException leaves as 401
ErrorResponse401(r) == Response(401, [detail |-> r.detail])

\* an HTTPException leaves as its status with {"detail": ...}
ErrorResponse(r) == Response(r.status, [detail |-> r.detail])

\* an exception that is no HTTPException leaves as a plain 500
ServerError == Response(500, [detail |-> "Internal Server Error"])

\* variant of profile: sub is read from the wrong claim
profile_username_as_sub(claims) ==
    Response(200, [sub      |-> Get(claims, "username", NoValue),
                   email    |-> Get(claims, "email", NoValue),
                   username |-> Get(claims, "username", NoValue),
                   groups   |-> Get(claims, "cognito:groups", <<>>)])

profile(claims) ==
    Response(200, [sub      |-> Get(claims, "sub", NoValue),
                   email    |-> Get(claims, "email", NoValue),
                   username |-> Get(claims, "username", NoValue),
                   groups   |-> Get(claims, "cognito:groups", <<>>)])

transactions(claims) ==
    Response(200, [owner |-> Get(claims, "sub", NoValue),
                   items |-> <<"txn_001", "txn_002">>])

\* `x in groups` on a list
In(x, groups) == \E i \in 1..Len(groups) : groups[i] = x

\* variant of admin_reports: any group membership opens the report
admin_reports_any_group(claims) ==
    LET groups == Get(claims, "cognito:groups", <<>>)
    IN  IF Len(groups) = 0
        THEN Response(403, [detail |-> "Admin access required"])
        ELSE Response(200, [generated_by |-> Get(claims, "username", NoValue),
                            summary      |-> <<42, 1234567>>])

admin_reports(claims) ==
    LET groups == Get(claims, "cognito:groups", <<>>)
    IN  IF ~In("admin", groups)
        THEN Response(403, [detail |-> "Admin access required"])
        ELSE Response(200, [generated_by |-> Get(claims, "username", NoValue),
                            summary      |-> <<42, 1234567>>])

\* Depends(verify_access_token): the route body runs only on a returned value
Route(endpoint, result) ==
    IF ~result.ok
    THEN ErrorResponse(result)
    ELSE CASE endpoint = "profile"       -> profile(result.claims)
           [] endpoint = "transactions"  -> transactions(result.claims)
           [] endpoint = "admin_reports" -> admin_reports(result.claims)

----------------------------------------------------------------------------
(* Requests *)

NoResult == [ok |-> FALSE, status |-> 0, detail |-> ""]

NoResponse == Response(0, [detail |-> ""])

\* a coroutine slot with no request in it
IdleReq ==
    [pc            |-> "idle",
     authorization |-> NoHeader,
     endpoint      |-> "",         \* the route, recorded where it is first read
     url           |-> "",         \* config.jwks_url (line 71), kept likewise
     now           |-> 0,          \* line 43, kept while the fetch is awaited
     local         |-> None,       \* the value `get` returned, kept until used
     fetch         |-> "none",     \* how `get` went for this request
     netcalls      |-> 0,          \* client.get calls issued by this request
     result        |-> NoResult,   \* what verify_access_token returned or raised
     response      |-> NoResponse]

TokenOf(a) == Partition(a.value).token

\* variant of CacheHit: a fetch in flight is waited for instead of repeated
CacheHitOrInflight(now) ==
    \/ Truthy(jwks) /\ (now - cached_at) < ttl_seconds
    \/ \E o \in Requests : req[o].pc = "await"

\* variant of CacheHit: the entry is taken to lapse one tick early
CacheHitEarly(now) == Truthy(jwks) /\ (now - cached_at) < ttl_seconds - 1

\* line 44
CacheHit(now) == Truthy(jwks) /\ (now - cached_at) < ttl_seconds

\* the request leaves verify_access_token with `res` and route `ep` answers
Answered(q, ep, res) ==
    [q EXCEPT !.pc = "done", !.endpoint = ep, !.now = 0, !.local = None,
              !.result = res, !.response = Route(ep, res)]

\* variant of Commit: the entry is stamped after the time of the call
CommitStampsLate(d, now) == [jwks |-> d, cached_at |-> now + 1]

\* variant of Commit: the document is replaced, the timestamp is not
CommitKeepsStamp(d, now) == [jwks |-> d, cached_at |-> cached_at]

\* lines 50-52: what a 2xx answer with JSON `d` leaves in the cache
Commit(d, now) == [jwks |-> d, cached_at |-> now]

\* variant of Abandon: a failed fetch drops the cached entry
AbandonClears == [jwks |-> None, cached_at |-> 0]

\* variant of Abandon: the failed attempt is remembered by its time
AbandonStamps == [jwks |-> jwks, cached_at |-> clock]

\* lines 48-50 raising: what is left in the cache
Abandon == [jwks |-> jwks, cached_at |-> cached_at]

Init ==
    /\ env \in Envs
    /\ jwks = None
    /\ cached_at = 0
    /\ clock = StartTime
    /\ req = [r \in Requests |-> IdleReq]

\* A request for route `ep` arrives and runs up to its first suspension:
\* lines 59-69, then get's lines 43-45, and on a cache hit lines 73-96 and
\* the route as well.
Call(r, a, ep) ==
    /\ req[r].pc = "idle"
    /\ LET q   == [IdleReq EXCEPT !.authorization = a]
           pre == verify_before_get(a, env)
       IN  req' = [req EXCEPT ![r] =
                IF ~pre.ok
                THEN Answered(q, ep, pre)
                ELSE IF CacheHit(clock)
                     THEN Answered([q EXCEPT !.fetch = "hit"], ep,
                                   verify_after_get(pre.token, env, jwks, clock))
                     ELSE [q EXCEPT !.pc = "await", !.url = jwks_url(env),
                                    !.now = clock,
                                    !.fetch = "pending", !.netcalls = 1]]
    /\ UNCHANGED <<env, jwks, cached_at, clock>>

\* lines 48-52: the awaited GET answers 2xx with JSON `d`; the pair is stored
\* and `return self.jwks` is evaluated before the client is closed
FetchOk(r, d) ==
    /\ req[r].pc = "await"
    /\ jwks' = Commit(d, req[r].now).jwks
    /\ cached_at' = Commit(d, req[r].now).cached_at
    /\ req' = [req EXCEPT ![r] = [@ EXCEPT !.pc = "closing", !.url = "", !.now = 0,
                                           !.local = jwks', !.fetch = "ok"]]
    /\ UNCHANGED <<env, clock>>

\* variant of FetchFail: a failed GET is issued again, up to three attempts
FetchFailRetries(r, kind, ep) ==
    /\ req[r].pc = "await"
    /\ kind \in FetchErrors
    /\ req[r].netcalls < 3
    /\ req' = [req EXCEPT ![r] = [@ EXCEPT !.netcalls = @ + 1]]
    /\ UNCHANGED <<env, jwks, cached_at, clock>>

\* lines 48-50 raise (HTTPStatusError, transport error, JSON error); nothing
\* catches it on the way out of verify_access_token (line 71)
FetchFail(r, kind, ep) ==
    /\ req[r].pc = "await"
    /\ kind \in FetchErrors
    /\ jwks' = Abandon.jwks
    /\ cached_at' = Abandon.cached_at
    /\ req' = [req EXCEPT ![r] = [@ EXCEPT !.pc = "done", !.endpoint = ep,
                                           !.url = "", !.now = 0,
                                           !.fetch = "failed",
                                           !.response = ServerError]]
    /\ UNCHANGED <<env, clock>>

\* the request's task is cancelled at one of its suspension points
Cancel(r) ==
    /\ req[r].pc \in {"await", "closing"}
    /\ req' = [req EXCEPT ![r] = [IdleReq EXCEPT !.pc = "cancelled"]]
    /\ UNCHANGED <<env, jwks, cached_at, clock>>

\* the client is closed; lines 73-96 and the route run on the returned value
Resume(r, ep) ==
    /\ req[r].pc = "closing"
    /\ req' = [req EXCEPT ![r] =
                 Answered(@, ep, verify_after_get(TokenOf(@.authorization), env,
                                                  @.local, clock))]
    /\ UNCHANGED <<env, jwks, cached_at, clock>>

\* the response is sent and the coroutine is gone
Finish(r) ==
    /\ req[r].pc \in {"done", "cancelled"}
    /\ req' = [req EXCEPT ![r] = IdleReq]
    /\ UNCHANGED <<env, jwks, cached_at, clock>>

\* time.time() moves on
Tick ==
    /\ clock < MaxTime
    /\ clock' = clock + 1
    /\ UNCHANGED <<env, jwks, cached_at, req>>

Next ==
    \/ \E r \in Requests : \E a \in HeadersOf(r), ep \in Endpoints : Call(r, a, ep)
    \/ \E r \in Requests, d \in Docs : FetchOk(r, d)
    \/ \E r \in Requests, kind \in FetchErrors, ep \in Endpoints : FetchFail(r, kind, ep)
    \/ \E r \in Requests : Cancel(r)
    \/ \E r \in Requests, ep \in Endpoints : Resume(r, ep)
    \/ \E r \in Requests : Finish(r)
    \/ Tick

Spec == Init /\ [][Next]_vars

----------------------------------------------------------------------------
(* Vocabulary of the properties *)

\* request r makes its `get` call in this step (lines 43-45 run)
CallsGet(r) == req[r].pc = "idle" /\ req'[r].fetch # "none"

\* request r leaves verify_access_token and is answered in this step
Leaves(r) == req[r].pc \in {"idle", "await", "closing"} /\ req'[r].pc = "done"

\* the awaited fetch of request r ends in this step without a 2xx JSON answer
FetchEndsBadly(r) == req[r].pc = "await" /\ req'[r].pc \in {"done", "cancelled"}

\* the key set request r verifies against in the step it leaves
UsedJwks(r) == IF req[r].pc = "closing" THEN req[r].local ELSE jwks

\* the error taxonomy of a finished request
Failure(q) ==
    CASE q.fetch = "failed"                               -> "KeySetFetchError"
      [] q.result.ok                                      -> "none"
      [] q.result.detail = "Missing Authorization header" -> "MissingCredential"
      [] q.result.detail = "Invalid Authorization header" -> "MalformedCredential"
      [] q.result.detail = ConfigMessage                  -> "ConfigurationError"
      [] q.result.detail = "Invalid token header"         -> "MalformedCredential"
      [] q.result.detail = "Signing key not found"        -> "UnknownSigningKey"
      [] q.result.detail = "Token verification failed"    -> "SignatureOrClaimInvalid"
      [] q.result.detail = "Expected access token"        -> "WrongTokenUse"
      [] OTHER                                            -> "unknown"

----------------------------------------------------------------------------
(* C1 *)

\* C1: JwksCache.get performs a network fetch if and only if no document is
\* cached or the age now - cached_at is at least ttl; otherwise it answers
\* from the cache with no network call.  Stated as written; the code treats
\* a cached empty JSON object as no document and fetches again within ttl.
C1_FetchIffAbsentOrExpired ==
    [][\A r \in Requests :
          CallsGet(r) =>
             /\ (req'[r].netcalls = 1)
                   <=> (jwks = None \/ (clock - cached_at) >= ttl_seconds)
             /\ req'[r].netcalls <= 1]_vars

----------------------------------------------------------------------------
(* C2 *)

\* C2: when a refresh fails after an earlier successful fetch, get still
\* hands the previously cached document to its caller, which goes on to
\* verify the token against it.  Stated as written; the code lets the
\* exception of the failed fetch leave get and the request.
C2_FailedRefreshServesCached ==
    [][\A r \in Requests :
          (/\ req[r].pc = "await" /\ req'[r].fetch = "failed"
           /\ Truthy(jwks) /\ (req[r].now - cached_at) >= ttl_seconds) =>
             req'[r].response =
                Route(req'[r].endpoint,
                      verify_after_get(TokenOf(req[r].authorization), env,
                                       jwks, clock))]_vars

----------------------------------------------------------------------------
(* C3 *)

\* C3: a fetch that ends without success (error status, network error,
\* malformed body, cancellation) leaves jwks and cached_at as they were, in
\* any interleaving; the pair changes only in the step of a successful
\* fetch, which writes both the document it received and its own `now`.
C3_OnlySuccessCommits ==
    [][/\ \A r \in Requests :
             FetchEndsBadly(r) => (jwks' = jwks /\ cached_at' = cached_at)
       /\ (jwks' # jwks \/ cached_at' # cached_at) =>
             \E r \in Requests :
                /\ req[r].pc = "await" /\ req'[r].fetch = "ok"
                /\ jwks' = req'[r].local
                /\ cached_at' = req[r].now]_vars

\* a refresh has failed while a document was cached
C3_Witness ==
    \E r \in Requests :
       /\ req[r].pc = "done" /\ req[r].fetch = "failed"
       /\ Truthy(jwks) /\ cached_at > 0

----------------------------------------------------------------------------
(* C4 *)

\* the pipeline's steps, each as the condition under which it fails for a
\* request with header a, key set jw, fetch outcome and time t
StepFails(n, a, jw, fetchFailed, t) ==
    LET p     == Partition(a.value)
        token == p.token
        hdrOk == HeaderParses(token)
        k     == IF hdrOk THEN SelectKey(KeysOf(jw), get_unverified_header(token))
                 ELSE 0
    IN  CASE n = 1 -> ~a.present \/ Len(a.value) = 0
          [] n = 2 -> LowerStr(p.scheme) # <<"bearer">> \/ Len(token) = 0
          [] n = 3 -> env.region = "" \/ env.user_pool_id = "" \/ env.client_id = ""
          [] n = 4 -> fetchFailed
          [] n = 5 -> ~hdrOk
          [] n = 6 -> hdrOk /\ k = 0
          [] n = 7 -> hdrOk /\ k # 0 /\
                      ~DecodeOk(token, KeysOf(jw)[k], issuer(env), env.client_id, t)
          [] n = 8 -> hdrOk /\ Get(decode(token), "token_use", NoValue) # "access"

\* the first step in the order 1..8 that fails, 0 when none does
RECURSIVE FirstFrom(_, _, _, _, _)
FirstFrom(n, a, jw, fetchFailed, t) ==
    IF n > 8 THEN 0
    ELSE IF StepFails(n, a, jw, fetchFailed, t) THEN n
         ELSE FirstFrom(n + 1, a, jw, fetchFailed, t)

FirstFailure(a, jw, fetchFailed, t) == FirstFrom(1, a, jw, fetchFailed, t)

\* what the failure of step n looks like to the caller
StepDetail(n) ==
    CASE n = 1 -> "Missing Authorization header"
      [] n = 2 -> "Invalid Authorization header"
      [] n = 3 -> ConfigMessage
      [] n = 4 -> "Internal Server Error"
      [] n = 5 -> "Invalid token header"
      [] n = 6 -> "Signing key not found"
      [] n = 7 -> "Token verification failed"
      [] n = 8 -> "Expected access token"

\* C4: verify runs presence, scheme, configuration, key-set retrieval,
\* header inspection, key selection, signature/claim verification and the
\* token-use check in this order; the failure a request reports is that of
\* the first step in the order that fails, and nothing later runs: no fetch
\* is issued when one of the first three steps fails.
C4_FirstFailingStepReported ==
    [][\A r \in Requests :
          Leaves(r) =>
             LET q == req'[r]
             IN  \A n \in {FirstFailure(q.authorization, UsedJwks(r),
                                        q.fetch = "failed", clock)} :
                 /\ (n = 0) <=> q.result.ok
                 /\ n # 0 => /\ q.response.body = [detail |-> StepDetail(n)]
                             /\ q.response.status \notin {200, 403}
                 /\ n \in 1..3 => (q.netcalls = 0 /\ q.fetch = "none")
                 /\ n > 4 => q.fetch \in {"hit", "ok"}]_vars

\* a failed fetch was reported for a request whose token is malformed as
\* well, and a request without header was refused before any fetch
C4_Witness ==
    /\ req["r1"].pc = "done" /\ req["r1"].fetch = "failed"
    /\ req["r1"].authorization = Hdr(<<"Bearer", " ", "junk">>)
    /\ req["r1"].response.body.detail = "Internal Server Error"
    /\ req["r2"].pc = "done" /\ req["r2"].authorization = NoHeader
    /\ req["r2"].response.body.detail = "Missing Authorization header"
    /\ req["r2"].netcalls = 0

----------------------------------------------------------------------------
(* C5 *)

\* C5: key lookup precedes the signature and claim checks: a request that
\* got a key set and whose token header parses with a kid equal to no
\* published kid fails with UnknownSigningKey, "Signing key not found",
\* whatever else is wrong with the token.
C5_UnknownKidBeforeClaims ==
    [][\A r \in Requests :
          LET q     == req'[r]
              token == TokenOf(q.authorization)
              ks    == KeysOf(UsedJwks(r))
          IN  (/\ Leaves(r) /\ q.fetch \in {"hit", "ok"}
               /\ HeaderParses(token)
               /\ \A i \in 1..Len(ks) :
                     Get(ks[i], "kid", NoValue)
                        # Get(get_unverified_header(token), "kid", NoValue))
              => /\ Failure(q) = "UnknownSigningKey"
                 /\ q.response = Response(401, [detail |-> "Signing key not found"])]_vars

\* a token with an unknown kid that is also expired, wrongly signed, of
\* another issuer and no access token was turned down for its key
C5_Witness ==
    \E r \in Requests :
       /\ req[r].pc = "done"
       /\ req[r].authorization = Hdr(<<"Bearer", " ", "tStale">>)
       /\ Failure(req[r]) = "UnknownSigningKey"

----------------------------------------------------------------------------
(* C6 *)

\* C6: verify returns claims only when token_use equals "access": a request
\* that passes steps 1 to 7 with a token whose token_use is absent or
\* different fails with WrongTokenUse.
C6_TokenUseGate ==
    [][\A r \in Requests :
          Leaves(r) =>
             LET q      == req'[r]
                 token  == TokenOf(q.authorization)
                 passed == \A n \in 1..7 :
                              ~StepFails(n, q.authorization, UsedJwks(r),
                                         q.fetch = "failed", clock)
             IN  /\ q.result.ok =>
                       /\ "token_use" \in DOMAIN q.result.claims
                       /\ q.result.claims["token_use"] = "access"
                 /\ (/\ passed
                     /\ \/ "token_use" \notin DOMAIN decode(token)
                        \/ decode(token)["token_use"] # "access")
                    => /\ Failure(q) = "WrongTokenUse"
                       /\ q.response.status = 401]_vars

\* a well signed token without token_use, and one with token_use "id", were
\* refused at the gate
C6_Witness ==
    \E r \in Requests :
       /\ req[r].pc = "done"
       /\ req[r].authorization \in {Hdr(<<"Bearer", " ", "tNoUse">>),
                                    Hdr(<<"Bearer", " ", "tId">>)}
       /\ Failure(req[r]) = "WrongTokenUse"

----------------------------------------------------------------------------
(* C7 *)

\* C7 as written: every verification failure leaves as 401, except
\* ConfigurationError, which leaves as 500; so does a failed key-set fetch.
C7_FailuresAre401ExceptConfig ==
    \A r \in Requests :
       (req[r].pc = "done" /\ Failure(req[r]) # "none") =>
          req[r].response.status =
             IF Failure(req[r]) = "ConfigurationError" THEN 500 ELSE 401

\* C7 amended: every verification failure leaves as 401, except
\* ConfigurationError and KeySetFetchError, which both leave as 500: the
\* exception of a failed fetch is no HTTPException and is caught nowhere.
C7_FailuresAre401ExceptConfigAndFetch ==
    \A r \in Requests :
       (req[r].pc = "done" /\ Failure(req[r]) # "none") =>
          /\ Failure(req[r]) # "unknown"
          /\ req[r].response.status =
                IF Failure(req[r]) \in {"ConfigurationError", "KeySetFetchError"}
                THEN 500 ELSE 401

\* a failed fetch has been answered, and so has a refused token
C7_Witness ==
    \E r, o \in Requests :
       /\ req[r].pc = "done" /\ Failure(req[r]) = "KeySetFetchError"
       /\ req[r].response.status = 500
       /\ req[o].pc = "done" /\ Failure(req[o]) = "SignatureOrClaimInvalid"
       /\ req[o].response.status = 401

----------------------------------------------------------------------------
(* C8 *)

Range(f) == {f[i] : i \in DOMAIN f}

\* the token a finished request presented, as the provider issued it
OwnClaims(q) == decode(TokenOf(q.authorization))

\* C8: /api/admin/reports answers 200 exactly when verify succeeded and the
\* groups of the validated claims hold the string "admin" itself, 403 "Admin
\* access required" exactly when verify succeeded and they do not (no
\* groups claim counts as none), and neither for a token that failed.
C8_AdminReportsGate ==
    \A r \in Requests :
       (req[r].pc = "done" /\ req[r].endpoint = "admin_reports") =>
          LET q      == req[r]
              member == /\ q.result.ok
                        /\ "cognito:groups" \in DOMAIN OwnClaims(q)
                        /\ "admin" \in Range(OwnClaims(q)["cognito:groups"])
          IN  /\ (q.response.status = 200) <=> member
              /\ (q.response.status = 403) <=> (q.result.ok /\ ~member)
              /\ q.response.status = 403 =>
                    q.response.body = [detail |-> "Admin access required"]
              /\ q.response.status = 200 =>
                    q.response.body.generated_by = OwnClaims(q)["username"]
              /\ q.result.ok => q.result.claims = OwnClaims(q)

\* an admin was served the report while a member of "administrators" only
\* was refused it
C8_Witness ==
    /\ req["r1"].pc = "done" /\ req["r1"].endpoint = "admin_reports"
    /\ req["r1"].authorization = Hdr(<<"Bearer", " ", "tAdmin">>)
    /\ req["r1"].response.status = 200
    /\ req["r2"].pc = "done" /\ req["r2"].endpoint = "admin_reports"
    /\ req["r2"].authorization = Hdr(<<"Bearer", " ", "tUser">>)
    /\ req["r2"].response.status = 403

----------------------------------------------------------------------------
(* C9 *)

\* what /api/profile and /api/transactions owe a request whose token passed
PayloadOfOwnClaims(q) ==
    /\ q.result.ok
    /\ q.result.claims = OwnClaims(q)
    /\ q.endpoint = "profile" =>
          q.response.body =
             [sub      |-> Get(OwnClaims(q), "sub", NoValue),
              email    |-> Get(OwnClaims(q), "email", NoValue),
              username |-> Get(OwnClaims(q), "username", NoValue),
              groups   |-> Get(OwnClaims(q), "cognito:groups", <<>>)]
    /\ q.endpoint = "transactions" =>
          /\ DOMAIN q.response.body = {"owner", "items"}
          /\ q.response.body.owner = Get(OwnClaims(q), "sub", NoValue)

\* C9 as written: /api/profile and /api/transactions answer 200 only for a
\* request whose token passed verify, with the sub/owner, email, username
\* and groups of that request's own claims; any verification failure yields
\* 401 and no payload.
C9_ProtectedRoutes401 ==
    \A r \in Requests :
       (req[r].pc = "done" /\ req[r].endpoint \in {"profile", "transactions"}) =>
          /\ req[r].response.status = 200 => PayloadOfOwnClaims(req[r])
          /\ Failure(req[r]) # "none" =>
                /\ req[r].response.status = 401
                /\ DOMAIN req[r].response.body = {"detail"}

\* C9 amended: as above, but a verification failure yields 401, or 500 when
\* it is a ConfigurationError or a failed key-set fetch, and no payload.
C9_ProtectedRoutes ==
    \A r \in Requests :
       (req[r].pc = "done" /\ req[r].endpoint \in {"profile", "transactions"}) =>
          /\ (req[r].response.status = 200) <=> (Failure(req[r]) = "none")
          /\ req[r].response.status = 200 => PayloadOfOwnClaims(req[r])
          /\ Failure(req[r]) # "none" =>
                /\ req[r].response.status =
                      IF Failure(req[r]) \in {"ConfigurationError", "KeySetFetchError"}
                      THEN 500 ELSE 401
                /\ DOMAIN req[r].response.body = {"detail"}

\* two requests of different subjects were answered side by side, each with
\* its own claims
C9_Witness ==
    /\ req["r1"].pc = "done" /\ req["r1"].endpoint = "profile"
    /\ req["r1"].response.status = 200 /\ req["r1"].response.body.sub = "alice"
    /\ req["r2"].pc = "done" /\ req["r2"].endpoint = "profile"
    /\ req["r2"].response.status = 200 /\ req["r2"].response.body.sub = "bob"

----------------------------------------------------------------------------
(* C10 *)

\* C10: verify is idempotent on success: a call with a token that is valid
\* against an unexpired cache issues no fetch, leaves jwks and cached_at as
\* they are and returns the token's claims, the same as every other
\* successful call with that token returned.
C10_VerifyIdempotent ==
    [][\A r \in Requests :
          LET q == req'[r]
          IN  (/\ req[r].pc = "idle" /\ q.pc # "idle"
               /\ Truthy(jwks) /\ (clock - cached_at) < ttl_seconds
               /\ FirstFailure(q.authorization, jwks, FALSE, clock) = 0)
              => /\ q.pc = "done" /\ q.netcalls = 0 /\ q.fetch = "hit"
                 /\ q.result = Return(OwnClaims(q))
                 /\ jwks' = jwks /\ cached_at' = cached_at
                 /\ \A o \in Requests :
                       (/\ req[o].pc = "done" /\ req[o].result.ok
                        /\ req[o].authorization = q.authorization)
                       => req[o].result.claims = q.result.claims]_vars

\* the same valid token was verified twice against the cached key set
C10_Witness ==
    /\ \A r \in Requests :
          /\ req[r].pc = "done" /\ req[r].fetch = "hit" /\ req[r].result.ok
          /\ req[r].authorization = Hdr(<<"Bearer", " ", "tAdmin">>)
    /\ req["r1"].result.claims = req["r2"].result.claims

----------------------------------------------------------------------------
(* C11 *)

\* the request got past presence and scheme, so the configuration was resolved
ReachedConfig(q) ==
    /\ q.pc \in {"await", "closing", "done"}
    /\ ~StepFails(1, q.authorization, None, FALSE, 0)
    /\ ~StepFails(2, q.authorization, None, FALSE, 0)

SomeFieldEmpty(e) == \E f \in {"region", "user_pool_id", "client_id"} : Len(e[f]) = 0

\* C11: constructing the configuration fails with ConfigurationError
\* whenever region, user-pool id or client id is empty and succeeds
\* otherwise; issuer is the provider template filled with region and pool,
\* jwksUrl is issuer followed by the well-known path, and every request
\* that resolves the same fields fetches from the same URL.
C11_ConfigAndUrls ==
    /\ \A r \in Requests :
          ReachedConfig(req[r]) =>
             /\ SomeFieldEmpty(env) <=>
                   (req[r].pc = "done" /\ Failure(req[r]) = "ConfigurationError")
             /\ SomeFieldEmpty(env) => req[r].response = Response(500, [detail |-> ConfigMessage])
    /\ \A r \in Requests :
          req[r].pc = "await" =>
             /\ req[r].url = "https://cognito-idp." \o env.region \o ".amazonaws.com/"
                                \o env.user_pool_id \o "/.well-known/jwks.json"
             /\ req[r].url = issuer(env) \o "/.well-known/jwks.json"
             /\ \A o \in Requests : req[o].pc = "await" => req[o].url = req[r].url

\* with the client id alone missing a well-formed request was answered with
\* the configuration error
C11_Witness ==
    /\ env = [region |-> "us-east-1", user_pool_id |-> "pool1", client_id |-> ""]
    /\ \E r \in Requests :
          /\ req[r].pc = "done"
          /\ req[r].authorization = Hdr(<<"Bearer", " ", "tAdmin">>)
          /\ Failure(req[r]) = "ConfigurationError"

----------------------------------------------------------------------------
(* C12 *)

\* nothing has been stored since the process started
NeverFetched == jwks = None /\ cached_at = 0

\* C12: when nothing has ever been fetched and the fetch fails, the error
\* reaches the caller and the cache stays empty; the failure is not
\* remembered: while the cache is empty every request that gets as far as
\* `get` issues a fetch of its own, and one whose fetch succeeds goes on
\* with the document it received.
C12_NoNegativeCaching ==
    [][\A r \in Requests :
          LET q == req'[r]
          IN  /\ (req[r].pc = "await" /\ q.fetch = "failed" /\ NeverFetched) =>
                    /\ q.pc = "done" /\ ~q.result.ok
                    /\ q.response.status \notin {200, 403}
                    /\ NeverFetched'
              /\ (/\ req[r].pc = "idle" /\ q.pc # "idle" /\ NeverFetched
                  /\ \A n \in 1..3 : ~StepFails(n, q.authorization, None, FALSE, 0))
                 => (q.pc = "await" /\ q.netcalls = 1)
              /\ (req[r].pc = "await" /\ q.fetch = "ok") =>
                    /\ q.pc = "closing" /\ q.local \in Docs
                    /\ jwks' = q.local]_vars

\* after one request's fetch failed on an empty cache, the cache is still
\* empty, the failure has been answered, and another request is fetching
C12_Witness ==
    /\ NeverFetched
    /\ req["r1"].pc = "done" /\ req["r1"].fetch = "failed"
    /\ req["r1"].response.status = 500
    /\ req["r2"].pc = "await" /\ req["r2"].netcalls = 1

----------------------------------------------------------------------------
(* C13 *)

\* the entry as any request can read it: nothing stored and the initial
\* timestamp, or a provider document with the time of a call made since start
EntryWellFormed ==
    \/ NeverFetched
    \/ jwks \in Docs /\ cached_at \in StartTime..clock

\* C13: at every point where a request can read the cache, the entry is
\* either (None, initial timestamp) or a (document, timestamp) pair; every
\* change of the entry is made by one successful fetch that writes the
\* document it received together with the `now` of its own get call, so no
\* document is paired with another fetch's timestamp; a stored document is
\* replaced by a whole provider document and never goes back to None.
C13_EntryIsOnePair ==
    /\ []EntryWellFormed
    /\ [][/\ (jwks' # jwks \/ cached_at' # cached_at) =>
                \E r \in Requests, d \in Docs :
                   /\ req[r].pc = "await" /\ req'[r].pc = "closing"
                   /\ req'[r].local = d
                   /\ <<jwks', cached_at'>> = <<d, req[r].now>>
          /\ jwks # None => jwks' \in Docs
          /\ (\E r \in Requests : req[r].pc = "await" /\ req'[r].pc = "closing")
                => (jwks' # None /\ cached_at' # 0)]_vars

\* a stored document has been replaced by the document of a second fetch
\* while a third get call is in flight
C13_Witness ==
    /\ jwks = Doc(<<Key2>>) /\ cached_at = StartTime + 1
    /\ req["r1"].pc = "closing" /\ req["r1"].local = Doc(<<Key2>>)
    /\ req["r2"].pc = "await" /\ req["r2"].now = StartTime

----------------------------------------------------------------------------
(* C14 *)

\* C14: fetches are not coalesced and no lock is held across the network
\* call.  A request whose get call finds nothing usable in the cache issues
\* a fetch of its own and leaves the entry as it is, whether or not another
\* request's fetch is in flight; so two requests can be fetching at once
\* (C14_Witness).
C14_NoCoalescing ==
    [][\A r \in Requests :
          (/\ req[r].pc = "idle" /\ req'[r].pc # "idle"
           /\ \A n \in 1..3 : ~StepFails(n, req'[r].authorization, None, FALSE, 0)
           /\ ~(Truthy(jwks) /\ (clock - cached_at) < ttl_seconds))
          => /\ req'[r].pc = "await" /\ req'[r].netcalls = 1
             /\ req'[r].fetch = "pending"
             /\ jwks' = jwks /\ cached_at' = cached_at]_vars

\* two requests have each seen the cache without a usable document and each
\* has its own fetch in flight, none committed yet
C14_Witness ==
    /\ ConfigOk(env)
    /\ \A r \in Requests :
          /\ req[r].pc = "await" /\ req[r].fetch = "pending" /\ req[r].netcalls = 1
          /\ ~(Truthy(jwks) /\ (req[r].now - cached_at) < ttl_seconds)

----------------------------------------------------------------------------
(* C15 *)

\* request r's fetch is answered in this step: the moment of receipt is clock
Receives(r) == req[r].pc = "await" /\ req'[r].pc = "closing"

\* request r's get call returns in this step without a network call
ServedFromCache(r) == req[r].pc = "idle" /\ req'[r].fetch = "hit"

\* C15: staleness is bounded by ttl.  The timestamp stored with a document
\* is never later than the moment the document was received and time does
\* not run backwards, so a get call that returns the stored document without
\* a network call (age now - cached_at below ttl) returns a document
\* received less than ttl before the call; the entry is refreshed only in a
\* step of a request that is inside its get call, never by the passing of
\* time or by a request that is elsewhere.
C15_StalenessBoundedByTtl ==
    [][/\ \A r \in Requests :
             /\ Receives(r) =>
                   /\ cached_at' <= clock /\ cached_at' = req[r].now
                   /\ jwks' = req'[r].local
             /\ ServedFromCache(r) =>
                   /\ cached_at <= clock /\ (clock - cached_at) < ttl_seconds
                   /\ jwks \in Docs
                   /\ req'[r].netcalls = 0
                   /\ req'[r].response =
                         Route(req'[r].endpoint,
                               verify_after_get(TokenOf(req'[r].authorization),
                                                env, jwks, clock))
       /\ clock' >= clock
       /\ (jwks' # jwks \/ cached_at' # cached_at) =>
             /\ clock' = clock
             /\ \E r \in Requests :
                   /\ Receives(r)
                   /\ \A o \in Requests \ {r} : req'[o] = req[o]]_vars

\* a refreshed document is served from the cache one tick after the call
\* that fetched it, at an age of ttl - 1
C15_Witness ==
    /\ cached_at = StartTime + 1 /\ clock = cached_at + ttl_seconds - 1
    /\ jwks = Doc(<<Key1, Key2>>)
    /\ \E r \in Requests :
          /\ req[r].pc = "done" /\ req[r].fetch = "hit" /\ req[r].result.ok
          /\ req[r].netcalls = 0

----------------------------------------------------------------------------
(* C16 *)

----------------------------------------------------------------------------
(* C17 *)

Reverse(ks) == [i \in 1..Len(ks) |-> ks[Len(ks) + 1 - i]]

\* the kids the key set publishes
PublishedKids(jw) == {Get(KeysOf(jw)[i], "kid", NoValue) : i \in 1..Len(KeysOf(jw))}

\* C17: the signing key is chosen by equality of kid, wherever it stands in
\* the key set.  For a request that reaches key selection (key set in hand,
\* token header parsed): if no published kid equals the kid of the token's
\* header, a missing kid included, the request is refused with "Signing key
\* not found" whatever its signature and claims; otherwise it is not refused
\* so, success means the entry with the token's kid carries the key of the
\* token's signature, and the answer is the one the same keys in the
\* opposite order give.
C17_KeyByKid ==
    [][\A r \in Requests :
          LET q == req'[r]
          IN  (/\ Leaves(r) /\ q.fetch \in {"hit", "ok"}
               /\ HeaderParses(TokenOf(q.authorization))) =>
                 \A jw \in {UsedJwks(r)} :
                 \A kid \in {Get(get_unverified_header(TokenOf(q.authorization)),
                                 "kid", NoValue)} :
                    /\ kid \notin PublishedKids(jw)
                          <=> Failure(q) = "UnknownSigningKey"
                    /\ q.result.ok =>
                          \E i \in 1..Len(KeysOf(jw)) :
                             /\ KeysOf(jw)[i].kid = kid
                             /\ KeysOf(jw)[i].n = JWT[TokenOf(q.authorization)[1]].sig
                    /\ q.result =
                          verify_after_get(TokenOf(q.authorization), env,
                                           Doc(Reverse(KeysOf(jw))), clock)]_vars

\* a token is verified with the key standing second in the key set while a
\* token without kid, before the same key set, is refused for its key
C17_Witness ==
    /\ jwks = Doc(<<Key2, Key1>>)
    /\ req["r2"].pc = "done" /\ req["r2"].result.ok
    /\ req["r2"].authorization = Hdr(<<"Bearer", " ", "tAdmin">>)
    /\ req["r1"].pc = "done" /\ req["r1"].fetch = "hit"
    /\ req["r1"].authorization = Hdr(<<"Bearer", " ", "tNoKid">>)
    /\ Failure(req["r1"]) = "UnknownSigningKey"

----------------------------------------------------------------------------
(* C18 *)

\* C18: cached_at never decreases; a fetch that commits later does not
\* overwrite the entry of a fetch whose get call started later.  Stated as
\* written; line 51 stores the `now` of line 43 without comparing it with
\* the stored timestamp, so of two fetches in flight the one that began
\* first and is answered last puts its earlier time and its document back.
C18_TimestampNeverDecreases ==
    [][cached_at' >= cached_at]_vars

====
